---- MODULE Spec2Model ----
(***************************************************************************)
(* Model of the component rendering engine of go-htmx (src/component.go):  *)
(* the Component node, its composition and data API, the recursive Render  *)
(* with context-carried reentrancy marking, and the process-wide template  *)
(* cache.  The template engine (html/template) is an external collaborator:*)
(* parsing and execution are modelled by their possible outcomes.          *)
(***************************************************************************)
EXTENDS Integers, Sequences, FiniteSets, TLC

(* ------------------------------ bounds --------------------------------- *)
\* API calls and top-level Render calls a behaviour may issue, per
\* specification: render orchestration, URL propagation, data injection
MaxOps == 2
MaxRenders == 1
MaxURLOps == 3
MaxDataOps == 3
MaxDataRenders == 1
\* the same for the specifications of the template cache: one goroutine,
\* and concurrent renders
MaxCacheOps == 3
MaxCacheRenders == 2
MaxConcOps == 2
MaxConcRenders == 2
\* for the specification of the order of the children
MaxOrderOps == 3
MaxOrderRenders == 1
\* for the specification of global data
MaxGlobalOps == 3
MaxGlobalRenders == 2
\* and for the specification of shared components
MaxSharedOps == 4
\* longest template identifier sequence a component may hold
MaxTemplates == 2

(* --------------------------- value universes --------------------------- *)
Comp == {"A", "B", "C", "D"}
\* the components the single-goroutine specifications build their graphs from
Trio == {"A", "B", "C"}
Slots == {"nav", "side"}
Keys == {"x", "y"}
Vals == {1, 2}
FuncNames == {"f", "g"}
Impls == {1, 2}
TemplateIds == {"views/page.html", "nav.html"}
URLs == {"/home", "/about"}
Threads == {1, 2}

\* a *url.URL that is nil
NilURL == "nil"

(* A Go map[string]any over Keys is a total function Keys -> value, where  *)
(* 0 stands for "key absent".  The nil map is a distinct value: reads see  *)
(* it as empty, writes to it panic.                                        *)
EmptyMap == [k \in Keys |-> 0]
NilMap == [k \in Keys |-> -1]
Maps == [Keys -> {0} \cup Vals]
IsNil(m) == m = NilMap
Has(m, k) == m[k] > 0
KeysOf(m) == {k \in Keys : Has(m, k)}

\* template.FuncMap over FuncNames: 0 = name not registered
NoFuncs == [n \in FuncNames |-> 0]
FuncMaps == [FuncNames -> {0} \cup Impls]
NamesOf(fm) == {n \in FuncNames : fm[n] > 0}

(* ------------------------------- errors -------------------------------- *)
NoError == "nil"
CircularReferenceError == "circular reference detected in partials"
NoTemplatesError == "no templates provided for rendering"
CompileError == "template: parse error"
ExecutionError == "template: execution error"
CacheTypeError == "template is not a *template.Template"

\* template.HTML("")
EmptyHTML == <<>>

VARIABLES
  templateData,   \* Component.templateData, per component
  globalData,     \* Component.globalData
  partial,        \* Component.partial: slot -> rendered child markup
  with,           \* Component.with: slot -> child component
  templates,      \* Component.templates
  url,            \* Component.url
  functions,      \* Component.functions
  DefaultTemplateFuncs, \* package-level default registry
  UseTemplateCache,     \* package-level flag
  templateCache,        \* package-level sync.Map: key -> stored value
  stack,          \* per goroutine: the active Render frames (innermost last)
  ret,            \* per goroutine: the value pair last returned by a Render
  call,           \* per goroutine: bookkeeping of the current top-level Render
  fatal,          \* "" or the reason the process died
  last,           \* bookkeeping: the last completed API call
  urlCalled,      \* bookkeeping: the components SetURL has been called on
  ownGlobal,      \* bookkeeping: per component, the keys of its global data
                  \* written by its own SetGlobalData / AddGlobalData
  compiled,       \* bookkeeping: the <<templates, function names>> pairs
                  \* whose compiled template has been stored
  nops, nrenders  \* calls issued so far

compVars == <<templateData, globalData, partial, with, templates, url, functions>>
pkgVars == <<DefaultTemplateFuncs, UseTemplateCache, templateCache>>
runVars == <<stack, ret, call>>
vars == <<compVars, pkgVars, runVars, fatal, last, urlCalled, ownGlobal,
          compiled, nops, nrenders>>

(* ------------------------------ helpers -------------------------------- *)
\* children of c: the values of c.with
Children(c) == {with[c][s] : s \in DOMAIN with[c]}

RECURSIVE ReachN(_, _)
ReachN(S, n) ==
  IF n = 0 THEN S
  ELSE ReachN(S \cup UNION {Children(x) : x \in S}, n - 1)

\* components reachable from c through children maps, c included
Reach(c) == ReachN({c}, Cardinality(Comp))

\* c lies on a cycle of the children graph
OnCycle(c) == \E d \in Children(c) : c \in Reach(d)

\* the recursion of SetURL started at c never ends
Diverges(c) == \E d \in Reach(c) : OnCycle(d)

\* a store that keeps the entry a key already has
Put_IfAbsent(f, k, v) ==
  [x \in (DOMAIN f) \cup {k} |-> IF x \in DOMAIN f THEN f[x] ELSE v]

\* m[k] = v on a Go map
Put(f, k, v) == [x \in (DOMAIN f) \cup {k} |-> IF x = k THEN v ELSE f[x]]

Idle == \A t \in Threads : stack[t] = <<>>

\* bookkeeping of one top-level Render: its root, whether it is running, has
\* returned ("done") or panicked, the components whose template was handed
\* to Execute, the component whose Render created the error, whether the
\* root got its error from a child, and the ParseFS calls and cache hits
NoCall == [root |-> "", status |-> "idle", executed |-> {}, origin |-> "",
           via |-> "", compiled |-> 0, loaded |-> 0]

(* ------------------------------- Init ---------------------------------- *)
\* Package variables at their declared values, DefaultTemplateFuncs as the
\* application set it before serving.
Page == <<"views/page.html">>

NoReturn == [err |-> NoError, html |-> EmptyHTML]

\* NewComponent(tpls[c]...) for every component c
Start(tpls, defaults) ==
  /\ templateData = [c \in Comp |-> EmptyMap]
  /\ globalData = [c \in Comp |-> NilMap]
  /\ partial = [c \in Comp |-> <<>>]
  /\ with = [c \in Comp |-> <<>>]
  /\ templates = tpls
  /\ url = [c \in Comp |-> NilURL]
  /\ functions = [c \in Comp |-> NoFuncs]
  /\ DefaultTemplateFuncs = defaults
  /\ UseTemplateCache = TRUE
  /\ templateCache = <<>>
  /\ stack = [t \in Threads |-> <<>>]
  /\ ret = [t \in Threads |-> NoReturn]
  /\ call = [t \in Threads |-> NoCall]
  /\ fatal = ""
  /\ last = [op |-> "NewComponent"]
  /\ urlCalled = {}
  /\ ownGlobal = [c \in Comp |-> {}]
  /\ compiled = {}
  /\ nops = 0
  /\ nrenders = 0

\* guard shared by the API calls issued between renders
CanCall == fatal = "" /\ Idle

\* the caller has consumed the result of the renders before its next call
Forget ==
  /\ call' = [t \in Threads |-> NoCall]
  /\ ret' = [t \in Threads |-> NoReturn]

(* --------------------------- template cache ---------------------------- *)
\* the orders in which the range over the registry may yield its names
Enumerations(S) ==
  {q \in [1..Cardinality(S) -> S] : \A n \in S : \E i \in DOMAIN q : q[i] = n}

NameOrder == <<"f", "g">>
Occurs(q, n) == \E i \in DOMAIN q : q[i] = n

\* a sort that leaves the names in the order they were gathered
SortStrings_Unsorted(funcNames) == funcNames

\* sort.Strings
SortStrings(funcNames) == SelectSeq(NameOrder, LAMBDA n : Occurs(funcNames, n))

\* templates[0] + ":" + hex(sha256(join(sorted funcNames, ","))).  SHA-256
\* is taken to be collision free: the digest is represented by the joined
\* sequence of names itself
generateCacheKey(tpls, funcNames) == <<tpls[1], SortStrings(funcNames)>>

\* the registry renderNamed builds: defaults, overridden by c.functions
EffectiveFuncs(c) ==
  [n \in FuncNames |-> IF functions[c][n] > 0 THEN functions[c][n]
                       ELSE DefaultTemplateFuncs[n]]

\* filepath.Base
Base(t) == IF t = "views/page.html" THEN "page.html" ELSE t

\* the value template.New(name).Funcs(functions).ParseFS(fs, templates...)
\* yields on success
ParsedTemplate(name, funcs, tpls) ==
  [type |-> "*template.Template", name |-> name, funcs |-> funcs,
   templates |-> tpls]

\* a store of the template's name in place of the template
StoredValue_Name(tmpl) == [type |-> "string", name |-> tmpl.name]

\* the value renderNamed hands to templateCache.Store
StoredValue(tmpl) == tmpl

\* the type assertion tmpl.(*template.Template)
IsTemplate(v) == v.type = "*template.Template"

\* what a successful Execute writes: determined by the compiled template
\* and the data envelope (Ctx left out: it holds no data of the model)
Markup(c, tmpl) ==
  <<[tmpl |-> tmpl, Data |-> templateData[c], Global |-> globalData[c],
     Partials |-> partial[c], URL |-> url[c]]>>

(* -------------------------- composition API ---------------------------- *)
\* c.url != nil
HasURL_Never(u) == FALSE

HasURL(u) == u # NilURL

\* the URL assignment of a SetURL that stops at the direct children
SetURLResult_Shallow(c, u) ==
  [x \in Comp |-> IF x = c \/ x \in Children(c) THEN u ELSE url[x]]

\* the URL assignment SetURL(u) performs when called on c
SetURLResult(c, u) == [x \in Comp |-> IF x \in Reach(c) THEN u ELSE url[x]]

SetURL(c, u) ==
  /\ CanCall
  /\ Forget
  /\ url' = SetURLResult(c, u)
  /\ fatal' = IF Diverges(c) THEN "stack overflow" ELSE ""
  /\ last' = [op |-> "SetURL", c |-> c, u |-> u, before |-> url]
  /\ urlCalled' = urlCalled \cup {c}
  /\ nops' = nops + 1
  /\ UNCHANGED <<templateData, globalData, partial, with, templates,
                 functions, pkgVars, stack, ownGlobal, compiled, nrenders>>

With(c, r, target) ==
  /\ CanCall
  /\ Forget
  /\ url' = IF HasURL(url[c]) THEN SetURLResult(r, url[c]) ELSE url
  /\ fatal' = IF HasURL(url[c]) /\ Diverges(r) THEN "stack overflow" ELSE ""
  /\ with' = IF HasURL(url[c]) /\ Diverges(r) THEN with
             ELSE [with EXCEPT ![c] = Put(with[c], target, r)]
  /\ last' = [op |-> "With", c |-> c, r |-> r, target |-> target,
              before |-> url, below |-> Reach(r), slots |-> with[c]]
  /\ nops' = nops + 1
  /\ UNCHANGED <<templateData, globalData, partial, templates,
                 functions, pkgVars, stack, urlCalled, ownGlobal, compiled, nrenders>>

Attach(c, target) ==
  /\ CanCall
  /\ Forget
  /\ Len(templates[c]) < MaxTemplates
  /\ templates' = [templates EXCEPT ![c] = Append(templates[c], target)]
  /\ last' = [op |-> "Attach", c |-> c]
  /\ nops' = nops + 1
  /\ UNCHANGED <<templateData, globalData, partial, with, url,
                 functions, pkgVars, stack, fatal, urlCalled, ownGlobal, compiled, nrenders>>

AddTemplateFunction(c, name, function) ==
  /\ CanCall
  /\ Forget
  /\ functions' = [functions EXCEPT ![c][name] = function]
  /\ last' = [op |-> "AddTemplateFunction", c |-> c]
  /\ nops' = nops + 1
  /\ UNCHANGED <<templateData, globalData, partial, with, templates, url,
                 pkgVars, stack, fatal, urlCalled, ownGlobal, compiled, nrenders>>

SetGlobalData(c, input) ==
  /\ CanCall
  /\ Forget
  /\ globalData' = [globalData EXCEPT ![c] = input]
  /\ ownGlobal' = [ownGlobal EXCEPT ![c] = KeysOf(input)]
  /\ last' = [op |-> "SetGlobalData", c |-> c]
  /\ nops' = nops + 1
  /\ UNCHANGED <<templateData, partial, with, templates, url, functions,
                 pkgVars, stack, fatal, urlCalled, compiled, nrenders>>

AddGlobalData(c, key, value) ==
  /\ CanCall
  /\ Forget
  /\ globalData' = [globalData EXCEPT ![c] =
        [(IF IsNil(@) THEN EmptyMap ELSE @) EXCEPT ![key] = value]]
  /\ ownGlobal' = [ownGlobal EXCEPT ![c] = @ \cup {key}]
  /\ last' = [op |-> "AddGlobalData", c |-> c]
  /\ nops' = nops + 1
  /\ UNCHANGED <<templateData, partial, with, templates, url, functions,
                 pkgVars, stack, fatal, urlCalled, compiled, nrenders>>

SetData(c, input) ==
  /\ CanCall
  /\ Forget
  /\ templateData' = [templateData EXCEPT ![c] = input]
  /\ last' = [op |-> "SetData", c |-> c]
  /\ nops' = nops + 1
  /\ UNCHANGED <<globalData, partial, with, templates, url, functions,
                 pkgVars, stack, fatal, urlCalled, ownGlobal, compiled, nrenders>>

AddData(c, key, value) ==
  /\ CanCall
  /\ Forget
  /\ templateData' = [templateData EXCEPT ![c] =
        [(IF IsNil(@) THEN EmptyMap ELSE @) EXCEPT ![key] = value]]
  /\ last' = [op |-> "AddData", c |-> c]
  /\ nops' = nops + 1
  /\ UNCHANGED <<globalData, partial, with, templates, url, functions,
                 pkgVars, stack, fatal, urlCalled, ownGlobal, compiled, nrenders>>

\* the key renderNamed computes for c
KeyOf(c) ==
  generateCacheKey(templates[c],
                   CHOOSE q \in Enumerations(NamesOf(EffectiveFuncs(c))) : TRUE)

Fields(c) ==
  [templateData |-> templateData[c], globalData |-> globalData[c],
   partial |-> partial[c], with |-> with[c], url |-> url[c],
   templates |-> templates[c], functions |-> functions[c]]

\* a Reset that also drops the template identifiers
ResetValue_DropsTemplates(c) ==
  [templateData |-> EmptyMap, globalData |-> EmptyMap, partial |-> <<>>,
   with |-> <<>>, url |-> NilURL, templates |-> <<>>,
   functions |-> functions[c]]

\* the fields of c after Reset
ResetValue(c) ==
  [templateData |-> EmptyMap, globalData |-> EmptyMap, partial |-> <<>>,
   with |-> <<>>, url |-> NilURL, templates |-> templates[c],
   functions |-> functions[c]]

Reset(c) ==
  /\ CanCall
  /\ Forget
  /\ templateData' = [templateData EXCEPT ![c] = ResetValue(c).templateData]
  /\ globalData' = [globalData EXCEPT ![c] = ResetValue(c).globalData]
  /\ partial' = [partial EXCEPT ![c] = ResetValue(c).partial]
  /\ with' = [with EXCEPT ![c] = ResetValue(c).with]
  /\ url' = [url EXCEPT ![c] = ResetValue(c).url]
  /\ templates' = [templates EXCEPT ![c] = ResetValue(c).templates]
  /\ functions' = [functions EXCEPT ![c] = ResetValue(c).functions]
  /\ last' = [op |-> "Reset", c |-> c, had |-> Fields(c),
              entry |-> IF Len(templates[c]) > 0 /\ KeyOf(c) \in DOMAIN templateCache
                        THEN <<templateCache[KeyOf(c)]>> ELSE <<>>]
  /\ ownGlobal' = [ownGlobal EXCEPT ![c] = {}]
  /\ nops' = nops + 1
  /\ UNCHANGED <<pkgVars, stack, fatal, urlCalled, compiled, nrenders>>

\* the application flips the package-level flag
SetUseTemplateCache ==
  /\ CanCall
  /\ Forget
  /\ UseTemplateCache' = ~UseTemplateCache
  /\ last' = [op |-> "UseTemplateCache"]
  /\ nops' = nops + 1
  /\ UNCHANGED <<compVars, DefaultTemplateFuncs, templateCache, stack,
                 fatal, urlCalled, ownGlobal, compiled, nrenders>>

(* ------------------------- data injection ------------------------------ *)
\* injectData writes c.templateData[key] without creating the map: the write
\* panics when the map is nil and the input has a key to copy
injectDataPanics(m, input) == IsNil(m) /\ KeysOf(input) # {}

injectData(m, input) ==
  [k \in Keys |-> IF ~Has(m, k) /\ Has(input, k) THEN input[k] ELSE m[k]]

\* injectGlobalData creates the map first when it is nil
injectGlobalData(m, input) ==
  LET own == IF IsNil(m) THEN EmptyMap ELSE m
  IN [k \in Keys |-> IF ~Has(own, k) /\ Has(input, k) THEN input[k] ELSE own[k]]

\* a store that starts from an empty map
addPartial_Replace(p, key, value) == Put(<<>>, key, value)

addPartial(p, key, value) == Put(p, key, value)

(* ------------------------------- Render -------------------------------- *)
\* a marking kept with the component instead of in the context: c counts as
\* active while any goroutine is rendering it
InContext_AnyChain(chain, c) ==
  \E t \in Threads : \E i \in 1..Len(stack[t]) : stack[t][i].c = c

\* ctx.Value(c) != nil
InContext(chain, c) == c \in chain

\* context.WithValue(ctx, c, true)
WithValue(chain, c) == chain \cup {c}

\* a check that lets every error but the compile error pass
ChildFailed_OnlyCompile(err) == err = CompileError

\* err != nil after value.Render(ctx)
ChildFailed(err) == err # NoError

\* a check that never fires
NoTemplates_Never(tpls) == FALSE

\* len(c.templates) == 0
NoTemplates(tpls) == Len(tpls) = 0

Top(t) == stack[t][Len(stack[t])]

\* the frame of a Render call on c entered with the context holding chain
NewFrame(c, chain) ==
  [c |-> c, chain |-> WithValue(chain, c), todo |-> DOMAIN with[c], cur |-> "",
   got |-> <<>>, key |-> <<>>, tmpl |-> <<>>, pc |-> "range"]

SetTop(t, f) == [stack EXCEPT ![t][Len(stack[t])] = f]

\* the innermost Render call of t returns (err, html) to its caller
Return(t, err, html) ==
  /\ ret' = [ret EXCEPT ![t] = [err |-> err, html |-> html]]
  /\ stack' = [stack EXCEPT ![t] =
        IF Len(@) = 1 THEN <<>>
        ELSE [SubSeq(@, 1, Len(@) - 1) EXCEPT ![Len(@) - 1].pc = "after"]]

Finished(t) == IF Len(stack[t]) = 1 THEN "done" ELSE "running"

\* a top-level Render(context.Background()) on c starts on goroutine t
Render(t, c) ==
  /\ fatal = ""
  /\ stack[t] = <<>>
  /\ stack' = [stack EXCEPT ![t] = <<NewFrame(c, {})>>]
  /\ call' = [call EXCEPT ![t] = [NoCall EXCEPT !.root = c,
                                                 !.status = "running"]]
  /\ nrenders' = nrenders + 1
  /\ UNCHANGED <<compVars, pkgVars, ret, fatal, last, urlCalled, ownGlobal, compiled, nops>>

\* one iteration of the loop over c.partials(): inject the data into the
\* child; or, the loop being over, the check of c.templates
RenderRange(t) ==
  /\ fatal = ""
  /\ stack[t] # <<>>
  /\ Top(t).pc = "range"
  /\ LET f == Top(t) IN
     IF f.todo = {}
     THEN /\ IF NoTemplates(templates[f.c])
             THEN /\ Return(t, NoTemplatesError, EmptyHTML)
                  /\ call' = [call EXCEPT ![t].status = Finished(t),
                                          ![t].origin = f.c,
                                          ![t].via = "own"]
             ELSE /\ stack' = SetTop(t, [f EXCEPT !.pc = "load"])
                  /\ UNCHANGED <<ret, call>>
          /\ UNCHANGED <<compVars, pkgVars, fatal, last, nops, urlCalled, ownGlobal, compiled, nrenders>>
     ELSE \E key \in f.todo :
            LET value == with[f.c][key] IN
            IF injectDataPanics(templateData[value], templateData[f.c])
            THEN /\ stack' = [stack EXCEPT ![t] = <<>>]
                 /\ call' = [call EXCEPT ![t].status = "panic"]
                 /\ UNCHANGED <<compVars, pkgVars, ret, fatal, last, nops,
                                urlCalled, ownGlobal, compiled, nrenders>>
            ELSE /\ templateData' = [templateData EXCEPT ![value] =
                        injectData(@, templateData[f.c])]
                 /\ globalData' = [globalData EXCEPT ![value] =
                        injectGlobalData(@, globalData[f.c])]
                 /\ stack' = SetTop(t, [f EXCEPT !.pc = "call",
                                                 !.cur = key,
                                                 !.todo = @ \ {key}])
                 /\ UNCHANGED <<partial, with, templates, url, functions,
                                pkgVars, ret, call, fatal, last, nops,
                                urlCalled, ownGlobal, compiled, nrenders>>

\* value.Render(ctx): the callee finds itself in the context, or runs
RenderCall(t) ==
  /\ fatal = ""
  /\ stack[t] # <<>>
  /\ Top(t).pc = "call"
  /\ LET f == Top(t)
         value == with[f.c][f.cur]
     IN IF InContext(f.chain, value)
        THEN /\ ret' = [ret EXCEPT ![t] = [err |-> CircularReferenceError,
                                           html |-> EmptyHTML]]
             /\ stack' = SetTop(t, [f EXCEPT !.pc = "after"])
             /\ call' = [call EXCEPT ![t].origin = value]
        ELSE /\ stack' = [stack EXCEPT ![t] = Append(@, NewFrame(value, f.chain))]
             /\ UNCHANGED <<ret, call>>
  /\ UNCHANGED <<compVars, pkgVars, fatal, last, nops, urlCalled, ownGlobal, compiled, nrenders>>

\* the child returned: pass its error on, or keep its markup as a partial
RenderAfter(t) ==
  /\ fatal = ""
  /\ stack[t] # <<>>
  /\ Top(t).pc = "after"
  /\ LET f == Top(t) IN
     IF ChildFailed(ret[t].err)
     THEN /\ Return(t, ret[t].err, EmptyHTML)
          /\ call' = [call EXCEPT ![t].status = Finished(t),
                                  ![t].via = "child"]
          /\ UNCHANGED partial
     ELSE /\ partial' = [partial EXCEPT ![f.c] = addPartial(@, f.cur, ret[t].html)]
          /\ stack' = SetTop(t, [f EXCEPT !.pc = "range",
                                          !.got = Put(@, f.cur, ret[t].html)])
          /\ UNCHANGED <<ret, call>>
  /\ UNCHANGED <<templateData, globalData, with, templates, url, functions,
                 pkgVars, fatal, last, nops, urlCalled, ownGlobal, compiled, nrenders>>

\* renderNamed: build the registry, compute the key, templateCache.Load
RenderLoad(t) ==
  /\ fatal = ""
  /\ stack[t] # <<>>
  /\ Top(t).pc = "load"
  /\ LET f == Top(t) IN
     IF Len(templates[f.c]) = 0
     THEN /\ Return(t, NoError, EmptyHTML)
          /\ call' = [call EXCEPT ![t].status = Finished(t), ![t].via = "own"]
     ELSE \E funcNames \in Enumerations(NamesOf(EffectiveFuncs(f.c))) :
          LET cacheKey == generateCacheKey(templates[f.c], funcNames)
              cached == cacheKey \in DOMAIN templateCache
              hit == cached /\ UseTemplateCache
          IN /\ stack' = SetTop(t, [f EXCEPT
                   !.key = cacheKey,
                   !.tmpl = IF cached THEN <<templateCache[cacheKey]>> ELSE <<>>,
                   !.pc = IF hit THEN "exec" ELSE "parse"])
             /\ call' = [call EXCEPT ![t].loaded = IF hit THEN @ + 1 ELSE @]
             /\ UNCHANGED ret
  /\ UNCHANGED <<compVars, pkgVars, fatal, last, nops, urlCalled, ownGlobal, compiled, nrenders>>

\* template.New(name).Funcs(functions).ParseFS(c.fs, templates...)
RenderParse(t) ==
  /\ fatal = ""
  /\ stack[t] # <<>>
  /\ Top(t).pc = "parse"
  /\ LET f == Top(t) IN
     \E ok \in BOOLEAN :
       IF ok
       THEN /\ stack' = SetTop(t, [f EXCEPT
                 !.tmpl = <<ParsedTemplate(Base(templates[f.c][1]),
                                           EffectiveFuncs(f.c), templates[f.c])>>,
                 !.pc = "store"])
            /\ call' = [call EXCEPT ![t].compiled = @ + 1]
            /\ UNCHANGED ret
       ELSE /\ Return(t, CompileError, EmptyHTML)
            /\ call' = [call EXCEPT ![t].compiled = @ + 1,
                                    ![t].status = Finished(t),
                                    ![t].origin = f.c,
                                    ![t].via = "own"]
  /\ UNCHANGED <<compVars, pkgVars, fatal, last, nops, urlCalled, ownGlobal, compiled, nrenders>>

\* templateCache.Store(cacheKey, tmpl)
RenderStore(t) ==
  /\ fatal = ""
  /\ stack[t] # <<>>
  /\ Top(t).pc = "store"
  /\ LET f == Top(t) IN
     /\ templateCache' = Put(templateCache, f.key, StoredValue(f.tmpl[1]))
     /\ compiled' = compiled \cup
          {<<f.tmpl[1].templates, NamesOf(f.tmpl[1].funcs)>>}
     /\ stack' = SetTop(t, [f EXCEPT !.pc = "exec"])
  /\ UNCHANGED <<compVars, DefaultTemplateFuncs, UseTemplateCache, ret, call,
                 fatal, last, nops, urlCalled, ownGlobal, nrenders>>

\* the type assertion and t.Execute(&buf, data)
RenderExec(t) ==
  /\ fatal = ""
  /\ stack[t] # <<>>
  /\ Top(t).pc = "exec"
  /\ LET f == Top(t) IN
     IF ~IsTemplate(f.tmpl[1])
     THEN /\ Return(t, CacheTypeError, EmptyHTML)
          /\ call' = [call EXCEPT ![t].status = Finished(t),
                                  ![t].origin = f.c,
                                  ![t].via = "own"]
     ELSE \E ok \in BOOLEAN :
            /\ Return(t, IF ok THEN NoError ELSE ExecutionError,
                         IF ok THEN Markup(f.c, f.tmpl[1]) ELSE EmptyHTML)
            /\ call' = [call EXCEPT ![t].status = Finished(t),
                                    ![t].executed = @ \cup {f.c},
                                    ![t].origin = IF ok THEN @ ELSE f.c,
                                    ![t].via = "own"]
  /\ UNCHANGED <<compVars, pkgVars, fatal, last, nops, urlCalled, ownGlobal, compiled, nrenders>>

RenderStep(t) ==
  \/ RenderRange(t)
  \/ RenderCall(t)
  \/ RenderAfter(t)
  \/ RenderLoad(t)
  \/ RenderParse(t)
  \/ RenderStore(t)
  \/ RenderExec(t)

(* ---------------------------- specifications --------------------------- *)
SetInputs == {NilMap, [k \in Keys |-> 2]}

(* Render orchestration: component graphs built with With, local data set  *)
(* or dropped, then rendered on one goroutine.  C has no templates.        *)
Init == Start([c \in Comp |-> IF c = "C" THEN <<>> ELSE Page], NoFuncs)

Next ==
  \/ \E c \in Trio, r \in Trio, target \in Slots :
       nops < MaxOps /\ With(c, r, target)
  \/ \E c \in Trio : nops < MaxOps /\ SetData(c, NilMap)
  \/ \E c \in Trio : nops < MaxOps /\ AddData(c, "x", 1)
  \/ \E c \in Trio : nrenders < MaxRenders /\ Render(1, c)
  \/ RenderStep(1)

Spec == Init /\ [][Next]_vars

(* URL propagation: graphs built with With, URLs set, components reset.    *)
InitURL == Start([c \in Comp |-> Page], NoFuncs)

NextURL ==
  \/ \E c \in Trio, r \in Trio, target \in Slots :
       nops < MaxURLOps /\ With(c, r, target)
  \/ \E c \in Trio, u \in URLs \cup {NilURL} : nops < MaxURLOps /\ SetURL(c, u)
  \/ \E c \in Trio : nops < MaxURLOps /\ Reset(c)

SpecURL == InitURL /\ [][NextURL]_vars

(* Data injection: two components given local and global data, one        *)
(* registered on the other (or on itself), then rendered.                  *)
DataComp == {"A", "B"}

InitData == Start([c \in Comp |-> Page], NoFuncs)

NextData ==
  \/ \E c \in DataComp, r \in DataComp : nops < MaxDataOps /\ With(c, r, "nav")
  \/ \E c \in DataComp, input \in SetInputs : nops < MaxDataOps /\ SetData(c, input)
  \/ \E c \in DataComp : nops < MaxDataOps /\ AddData(c, "x", 1)
  \/ \E c \in DataComp, input \in SetInputs :
       nops < MaxDataOps /\ SetGlobalData(c, input)
  \/ \E c \in DataComp : nops < MaxDataOps /\ AddGlobalData(c, "x", 1)
  \/ \E c \in DataComp : nrenders < MaxDataRenders /\ Render(1, c)
  \/ RenderStep(1)

SpecData == InitData /\ [][NextData]_vars

(* Template cache: functions registered, templates attached, the cache     *)
(* switched off and on, components reset, renders on one goroutine.        *)
CacheComp == {"A", "B"}
\* the application has registered f in the default registry
Defaults == [n \in FuncNames |-> IF n = "f" THEN 1 ELSE 0]

InitCache == Start([c \in Comp |-> Page], Defaults)

NextCache ==
  \/ nops < MaxCacheOps /\ With("A", "B", "nav")
  \/ nops < MaxCacheOps /\ AddData("A", "x", 1)
  \/ \E c \in CacheComp, n \in FuncNames :
       nops < MaxCacheOps /\ AddTemplateFunction(c, n, 2)
  \/ \E c \in CacheComp : nops < MaxCacheOps /\ Attach(c, "nav.html")
  \/ nops < MaxCacheOps /\ SetUseTemplateCache
  \/ nops < MaxCacheOps /\ Reset("A")
  \/ \E c \in CacheComp : nrenders < MaxCacheRenders /\ Render(1, c)
  \/ RenderStep(1)

SpecCache == InitCache /\ [][NextCache]_vars

(* Concurrent renders: two goroutines render components that have no       *)
(* children and share the template cache.                                  *)
\* the steps of Render on a component without children
LeafStep(t) ==
  \/ RenderRange(t)
  \/ RenderLoad(t)
  \/ RenderParse(t)
  \/ RenderStore(t)
  \/ RenderExec(t)

InitConc == Start([c \in Comp |-> Page], NoFuncs)

NextConc ==
  \/ \E c \in CacheComp, fn \in Impls :
       nops < MaxConcOps /\ AddTemplateFunction(c, "f", fn)
  \/ nops < MaxConcOps /\ SetUseTemplateCache
  \/ \E t \in Threads, c \in CacheComp : nrenders < MaxConcRenders /\ Render(t, c)
  \/ \E t \in Threads : LeafStep(t)

SpecConc == InitConc /\ [][NextConc]_vars

(* Shared components: the application builds a graph whose components are  *)
(* shared (the diamond A -> B, C -> D, and cycles through D -> A), then two *)
(* goroutines each serve one request by rendering a root.  The component    *)
(* maps are plain Go maps written by Render without a lock.                 *)
Access(c, field, kind) == [c |-> c, field |-> field, kind |-> kind]

\* the reads and writes of component maps the next step of goroutine t makes:
\* the loop body reads the parent's maps and writes the child's (injectData
\* writes a key the child lacks, injectGlobalData also creates a nil map),
\* addPartial writes c.partial, and Execute reads the maps of the envelope
Accesses(t) ==
  IF stack[t] = <<>> THEN {}
  ELSE LET f == Top(t) IN
    CASE f.pc = "range" ->
           UNION {LET value == with[f.c][key] IN
                    {Access(f.c, "templateData", "read"),
                     Access(f.c, "globalData", "read"),
                     Access(value, "globalData", "read")}
                    \cup (IF KeysOf(templateData[f.c]) # {}
                          THEN {Access(value, "templateData", "read")} ELSE {})
                    \cup (IF \E k \in Keys : /\ Has(templateData[f.c], k)
                                             /\ ~Has(templateData[value], k)
                          THEN {Access(value, "templateData", "write")} ELSE {})
                    \cup (IF \/ IsNil(globalData[value])
                             \/ \E k \in Keys : /\ Has(globalData[f.c], k)
                                                /\ ~Has(globalData[value], k)
                          THEN {Access(value, "globalData", "write")} ELSE {})
                  : key \in f.todo}
      [] f.pc = "after" ->
           IF ChildFailed(ret[t].err) THEN {}
           ELSE {Access(f.c, "partial", "write")}
      [] f.pc = "exec" ->
           IF IsTemplate(f.tmpl[1])
           THEN {Access(f.c, "templateData", "read"),
                 Access(f.c, "globalData", "read"),
                 Access(f.c, "partial", "read")}
           ELSE {}
      [] OTHER -> {}

Conflict(a, b) ==
  a.c = b.c /\ a.field = b.field /\ "write" \in {a.kind, b.kind}

\* goroutines t and u are both about to access one map, one of them writing,
\* with nothing ordering the two accesses
Race(t, u) ==
  t # u /\ \E a \in Accesses(t), b \in Accesses(u) : Conflict(a, b)

\* an unsynchronised access to a Go map is undefined: the accesses may go
\* through in either order (the steps of Render), or the runtime detects
\* them and ends the process
MapFault ==
  /\ fatal = ""
  /\ \E t \in Threads, u \in Threads : Race(t, u)
  /\ fatal' = "concurrent map writes"
  /\ UNCHANGED <<compVars, pkgVars, runVars, last, urlCalled, ownGlobal,
                 compiled, nops, nrenders>>

\* the registrations the application may make: <<parent, slot, child>>
SharedEdges ==
  {<<"A", "nav", "B">>, <<"A", "side", "C">>, <<"B", "nav", "D">>,
   <<"C", "nav", "D">>, <<"D", "nav", "A">>}
SharedRoots == {"A", "B"}

InitShared == Start([c \in Comp |-> Page], NoFuncs)

NextShared ==
  \/ \E e \in SharedEdges :
       nops < MaxSharedOps /\ nrenders = 0 /\ With(e[1], e[3], e[2])
  \/ \E t \in Threads, c \in SharedRoots :
       call[t].status = "idle" /\ Render(t, c)
  \/ \E t \in Threads : RenderStep(t)
  \/ MapFault

SpecShared == InitShared /\ [][NextShared]_vars

(* Global data: a parent and its registered child are given global data    *)
(* between renders of the parent.                                           *)
InitGlobal == Start([c \in Comp |-> Page], NoFuncs)

NextGlobal ==
  \/ nops < MaxGlobalOps /\ With("A", "B", "nav")
  \/ \E c \in DataComp, value \in Vals :
       nops < MaxGlobalOps /\ AddGlobalData(c, "x", value)
  \/ \E c \in DataComp, input \in SetInputs :
       nops < MaxGlobalOps /\ SetGlobalData(c, input)
  \/ nrenders < MaxGlobalRenders /\ Render(1, "A")
  \/ RenderStep(1)

SpecGlobal == InitGlobal /\ [][NextGlobal]_vars

(* Order of the children: Render as one step.  The range over c.with      *)
(* visits the slots in an order the Go runtime picks; RenderAll computes    *)
(* what Render does to the component maps and what it returns under a given *)
(* order, for templates that parse and execute without error.               *)
\* one visiting order per component: a sequence of the slots of its with map
Orders ==
  {ord \in [Comp -> UNION {Enumerations(S) : S \in SUBSET Slots}] :
     \A c \in Comp : ord[c] \in Enumerations(DOMAIN with[c])}

\* the component maps Render reads and writes
Maps3 == [td |-> templateData, gd |-> globalData, pt |-> partial]

Outcome(S, err, html) == [S |-> S, err |-> err, html |-> html]

RECURSIVE RenderAll(_, _, _, _)
RECURSIVE RangeAll(_, _, _, _, _)
\* Render on c entered with the context holding chain
RenderAll(c, chain, S, ord) ==
  IF InContext(chain, c)
  THEN Outcome(S, CircularReferenceError, EmptyHTML)
  ELSE RangeAll(c, WithValue(chain, c), S, ord, 1)

\* the loop over c.partials() from the i-th slot of the order on, then the
\* check of c.templates and renderNamed
RangeAll(c, chain, S, ord, i) ==
  IF i > Len(ord[c])
  THEN IF NoTemplates(templates[c])
       THEN Outcome(S, NoTemplatesError, EmptyHTML)
       ELSE Outcome(S, NoError,
                    <<[Data |-> S.td[c], Global |-> S.gd[c],
                       Partials |-> S.pt[c], URL |-> url[c]]>>)
  ELSE LET key == ord[c][i]
           value == with[c][key]
       IN IF injectDataPanics(S.td[value], S.td[c])
          THEN Outcome(S, "panic", EmptyHTML)
          ELSE LET injected == [S EXCEPT
                     !.td[value] = injectData(@, S.td[c]),
                     !.gd[value] = injectGlobalData(@, S.gd[c])]
                   child == RenderAll(value, chain, injected, ord)
               IN IF ChildFailed(child.err)
                  THEN Outcome(child.S, child.err, EmptyHTML)
                  ELSE RangeAll(c, chain,
                         [child.S EXCEPT !.pt[c] = addPartial(@, key, child.html)],
                         ord, i + 1)

\* a whole top-level Render of c, the runtime picking the orders
RenderAtOnce(c) ==
  /\ CanCall
  /\ \E ord \in Orders :
       LET done == RenderAll(c, {}, Maps3, ord) IN
       /\ templateData' = done.S.td
       /\ globalData' = done.S.gd
       /\ partial' = done.S.pt
       /\ ret' = [ret EXCEPT ![1] =
             IF done.err = "panic" THEN NoReturn
             ELSE [err |-> done.err, html |-> done.html]]
       /\ call' = [call EXCEPT ![1] =
             [NoCall EXCEPT !.root = c,
                            !.status = IF done.err = "panic" THEN "panic"
                                       ELSE "done"]]
  /\ nrenders' = nrenders + 1
  /\ UNCHANGED <<with, templates, url, functions, pkgVars, stack, fatal, last,
                 urlCalled, ownGlobal, compiled, nops>>

InitOrder == Start([c \in Comp |-> IF c = "C" THEN <<>> ELSE Page], NoFuncs)

NextOrder ==
  \/ \E c \in Trio, r \in Trio, target \in Slots :
       nops < MaxOrderOps /\ With(c, r, target)
  \/ \E c \in Trio, value \in Vals : nops < MaxOrderOps /\ AddData(c, "x", value)
  \/ \E c \in Trio : nops < MaxOrderOps /\ SetData(c, NilMap)
  \/ \E c \in Trio : nrenders < MaxOrderRenders /\ RenderAtOnce(c)

SpecOrder == InitOrder /\ [][NextOrder]_vars

(* ------------------------------- claims -------------------------------- *)
Returned(t) == call[t].status = "done"
Root(t) == call[t].root

\* the components on a cycle of the children graph that passes through c
CycleOf(c) == {x \in Reach(c) : OnCycle(c) /\ c \in Reach(x)}

\* C1, as stated: a Render that returns on a root lying on a cycle of its
\* partial graph returns the circular-reference error and empty markup, and
\* executes no template of a component on the cycle.
C1_AsStated ==
  (Returned(1) /\ OnCycle(Root(1))) =>
    /\ ret[1] = [err |-> CircularReferenceError, html |-> EmptyHTML]
    /\ call[1].executed \cap CycleOf(Root(1)) = {}

\* C1, amended: a Render on a root lying on a cycle never returns markup.
\* When it returns, it returns an error and empty markup and has executed no
\* template of a component on the cycle; the error is the circular-reference
\* error unless a component off the cycle, visited earlier, failed first
\* with its own error (no templates, compile, execution).
C1_CycleRejected ==
  (Returned(1) /\ OnCycle(Root(1))) =>
    /\ ret[1].err # NoError
    /\ ret[1].html = EmptyHTML
    /\ call[1].via = "child"
    /\ call[1].executed \cap CycleOf(Root(1)) = {}
    /\ \/ ret[1].err = CircularReferenceError
       \/ /\ ret[1].err \in {NoTemplatesError, CompileError, ExecutionError}
          /\ call[1].origin \notin CycleOf(Root(1))

\* a transitive cycle A -> B -> A was rendered from A and rejected
C1_Witness ==
  /\ Returned(1)
  /\ Root(1) = "A"
  /\ "B" \in Children("A")
  /\ "A" \in Children("B")
  /\ "A" \notin Children("A")
  /\ ret[1].err = CircularReferenceError

\* C2, as stated: a Render on a component without template identifiers
\* returns the no-templates error and empty markup, whatever its children.
C2_AsStated ==
  (Returned(1) /\ Len(templates[Root(1)]) = 0) =>
    ret[1] = [err |-> NoTemplatesError, html |-> EmptyHTML]

\* C2, amended: a Render on a component without template identifiers never
\* returns markup and never executes a template for that component.  The
\* check runs after the loop over the children: the call returns the
\* no-templates error when every child rendered, and otherwise the error of
\* the child that failed.
C2_NoTemplates ==
  (Returned(1) /\ Len(templates[Root(1)]) = 0) =>
    /\ ret[1].html = EmptyHTML
    /\ Root(1) \notin call[1].executed
    /\ IF call[1].via = "child"
       THEN ret[1].err \notin {NoError, NoTemplatesError} \/
            call[1].origin # Root(1)
       ELSE /\ ret[1].err = NoTemplatesError
            /\ DOMAIN with[Root(1)] \subseteq DOMAIN partial[Root(1)]
    /\ ret[1].err # NoError

\* a component without templates rendered its child, then failed
C2_Witness ==
  /\ Returned(1)
  /\ Len(templates[Root(1)]) = 0
  /\ with[Root(1)] # <<>>
  /\ call[1].executed # {}
  /\ ret[1].err = NoTemplatesError

\* C3: when a component's template is about to be executed, every slot of
\* its children map holds, in its partial-results map, the markup this call
\* got from rendering the child of that slot, and that child's template was
\* executed before.
C3_ChildrenFirst ==
  \A i \in 1..Len(stack[1]) :
    LET f == stack[1][i] IN
    f.pc \in {"load", "parse", "store", "exec"} =>
      \A s \in DOMAIN with[f.c] :
        /\ s \in DOMAIN f.got
        /\ s \in DOMAIN partial[f.c]
        /\ partial[f.c][s] = f.got[s]
        /\ f.got[s] # EmptyHTML
        /\ with[f.c][s] \in call[1].executed

\* a parent with two filled slots is about to execute its template
C3_Witness ==
  /\ stack[1] # <<>>
  /\ Top(1).pc = "exec"
  /\ DOMAIN with[Top(1).c] = Slots
  /\ Top(1).c \notin Children(Top(1).c)

\* the value pair a Render hands back: an error with empty markup, or no
\* error with the markup of the executed template
WellFormedReturn(r) ==
  \/ r.err # NoError /\ r.html = EmptyHTML
  \/ r.err = NoError /\ r.html # EmptyHTML

\* C9: every Render returns an error with empty markup or no error with the
\* full markup; when a child's Render fails, the parent returns that error
\* unchanged, renders no further child and does not execute its template.
C9_NoPartialSuccess ==
  [][/\ Returned(1)' => WellFormedReturn(ret[1]')
     /\ (stack[1]' # <<>> /\ Top(1)'.pc = "after") => WellFormedReturn(ret[1]')
     /\ (stack[1] # <<>> /\ Top(1).pc = "after" /\ ret[1].err # NoError) =>
          /\ ret[1]' = [err |-> ret[1].err, html |-> EmptyHTML]
          /\ stack[1]' = IF Len(stack[1]) = 1 THEN <<>>
                         ELSE [SubSeq(stack[1], 1, Len(stack[1]) - 1)
                                 EXCEPT ![Len(stack[1]) - 1].pc = "after"]
          /\ call[1]'.executed = call[1].executed
          /\ compVars' = compVars
    ]_vars

\* a parent has handed its caller the execution error of its child
C9_Witness ==
  /\ Returned(1)
  /\ call[1].via = "child"
  /\ ret[1].err = ExecutionError
  /\ call[1].origin # Root(1)
  /\ Cardinality(DOMAIN with[Root(1)]) = 2

\* C7: a SetURL(u) that returns has set the source URL of the component and
\* of every component reachable from it through children maps to u, and has
\* left the URL of every other component as it was.
C7_SetURLReaches ==
  (last.op = "SetURL" /\ fatal = "") =>
    \A x \in Comp :
      url[x] = IF x \in Reach(last.c) THEN last.u ELSE last.before[x]

\* SetURL on A reached the grandchild C through B and left nothing else set
C7_Witness ==
  /\ last.op = "SetURL"
  /\ fatal = ""
  /\ last.c = "A"
  /\ last.u = "/home"
  /\ Children("A") = {"B"}
  /\ Children("B") = {"C"}
  /\ last.before["C"] = NilURL
  /\ url["C"] = "/home"

\* C8, as stated: a child registered with With after SetURL was called on
\* the parent keeps the source URL it had before the registration.
C8_AsStated ==
  (last.op = "With" /\ fatal = "" /\ last.c \in urlCalled) =>
    url[last.r] = last.before[last.r]

\* C8, amended: With hands the parent's source URL to the child at once.  A
\* child registered after SetURL was called on the parent receives, during
\* With, the URL the parent holds (and so do the child's descendants); only
\* when the parent's URL is nil at that time does the child keep its URL
\* until SetURL is called again.
C8_WithPropagates ==
  (last.op = "With" /\ fatal = "" /\ last.c \in urlCalled) =>
    \A x \in Comp :
      url[x] = IF last.before[last.c] # NilURL /\ x \in last.below
               THEN last.before[last.c]
               ELSE last.before[x]

\* a child with its own URL was registered on a parent whose URL was set
C8_Witness ==
  /\ last.op = "With"
  /\ fatal = ""
  /\ last.c \in urlCalled
  /\ last.c # last.r
  /\ last.before[last.c] = "/home"
  /\ last.before[last.r] = "/about"
  /\ url[last.r] = "/home"

\* new is old with the keys of input it lacked, and nothing else changed
Merged(old, input, new) ==
  \A k \in Keys :
    IF Has(old, k) THEN new[k] = old[k]
    ELSE IF Has(input, k) THEN new[k] = input[k]
    ELSE ~Has(new, k)

SameContent(m, n) == \A k \in Keys : IF Has(m, k) THEN n[k] = m[k] ELSE ~Has(n, k)

\* C4, as stated: each iteration of the loop over the children merges the
\* parent's local and global data into the child: the child keeps its own
\* values, takes the parent's value for every key it lacks, loses no key,
\* and the parent's maps are left as they were.
C4_AsStated ==
  [][(stack[1] # <<>> /\ Top(1).pc = "range" /\ Top(1).todo # {}) =>
       /\ stack[1]' # <<>>
       /\ LET c == Top(1).c
              value == with[c][Top(1)'.cur]
          IN /\ Merged(templateData[value], templateData[c], templateData'[value])
             /\ Merged(globalData[value], globalData[c], globalData'[value])
             /\ SameContent(templateData[c], templateData'[c])
             /\ SameContent(globalData[c], globalData'[c])
    ]_vars

\* C5: with caching enabled, a render whose template identifiers and
\* function-name set were compiled and stored before performs no
\* compilation and executes the stored template, whatever the order the
\* names come in and whatever implementations are registered; with caching
\* disabled every render goes on to compile, stored entry or not.
C5_CompiledOnce ==
  [][(stack[1] # <<>> /\ Top(1).pc = "load" /\ Len(templates[Top(1).c]) > 0) =>
       LET c == Top(1).c
           pair == <<templates[c], NamesOf(EffectiveFuncs(c))>>
       IN IF UseTemplateCache
          THEN pair \in compiled =>
                 /\ Top(1)'.pc = "exec"
                 /\ Top(1)'.key \in DOMAIN templateCache
                 /\ Top(1)'.tmpl = <<templateCache[Top(1)'.key]>>
                 /\ call[1]'.compiled = call[1].compiled
                 /\ templateCache' = templateCache
          ELSE Top(1)'.pc = "parse"
    ]_vars

\* a render reuses a template compiled for another component that has the
\* same two function names under other implementations
C5_Witness ==
  /\ stack[1] # <<>>
  /\ Top(1).pc = "exec"
  /\ UseTemplateCache
  /\ call[1].compiled = 0
  /\ call[1].loaded = 1
  /\ NamesOf(EffectiveFuncs(Top(1).c)) = FuncNames
  /\ NamesOf(Top(1).tmpl[1].funcs) = FuncNames
  /\ Top(1).tmpl[1].funcs # EffectiveFuncs(Top(1).c)

Complete(v) ==
  /\ IsTemplate(v)
  /\ Len(v.templates) > 0
  /\ v = ParsedTemplate(Base(v.templates[1]), v.funcs, v.templates)

\* C10: under every interleaving of concurrent renders, the cache holds, and
\* a render loads, only completely compiled templates; the cache changes
\* only by the Store of a goroutine whose compilation succeeded, the entry
\* then being that goroutine's template; and no Render returns the "not a
\* compiled template" error.
C10_CacheSound ==
  [][/\ \A k \in DOMAIN templateCache' : Complete(templateCache'[k])
     /\ \A t \in Threads :
          /\ ret[t]'.err # CacheTypeError
          /\ \A i \in 1..Len(stack[t]') :
               stack[t]'[i].pc \in {"store", "exec"} =>
                 /\ stack[t]'[i].tmpl # <<>>
                 /\ Complete(stack[t]'[i].tmpl[1])
     /\ templateCache' # templateCache =>
          \E t \in Threads :
            /\ stack[t] # <<>>
            /\ Top(t).pc = "store"
            /\ stack[t]' # <<>>
            /\ Top(t)'.pc = "exec"
            /\ Top(t).key \in DOMAIN templateCache'
            /\ templateCache'[Top(t).key] = Top(t).tmpl[1]
            /\ \A k \in DOMAIN templateCache :
                 k # Top(t).key =>
                   k \in DOMAIN templateCache' /\ templateCache'[k] = templateCache[k]
    ]_vars

\* two goroutines compiled the same key with different registries; the entry
\* is the template of the one that stored last
C10_Witness ==
  /\ stack[1] # <<>>
  /\ stack[2] # <<>>
  /\ Top(1).pc = "exec"
  /\ Top(2).pc = "exec"
  /\ Top(1).key = Top(2).key
  /\ Top(1).tmpl # Top(2).tmpl
  /\ call[1].compiled = 1
  /\ call[2].compiled = 1
  /\ templateCache[Top(1).key] = Top(2).tmpl[1]


\* the components whose Render calls are active on goroutine t down to its
\* i-th frame
ActiveChain(t, i) == {stack[t][j].c : j \in 1..i}

\* C11: the marking a Render call sees is exactly the set of components
\* whose Render calls are active on its own goroutine; a child's Render
\* reports a circular reference exactly when the child is among them; and a
\* Render whose root reaches no cycle (the shared child of a diamond, two
\* goroutines rendering one root at once) never ends in, or passes on, the
\* circular-reference error.
C11_ScopedMarking ==
  /\ [](\A t \in Threads :
         /\ \A i \in 1..Len(stack[t]) : stack[t][i].chain = ActiveChain(t, i)
         /\ ret[t].err = CircularReferenceError => Diverges(Root(t)))
  /\ [][\A t \in Threads :
         (stack[t] # <<>> /\ Top(t).pc = "call" /\ stack[t]' # stack[t]) =>
           LET value == with[Top(t).c][Top(t).cur] IN
           IF value \in ActiveChain(t, Len(stack[t]))
           THEN /\ Len(stack[t]') = Len(stack[t])
                /\ ret[t]'.err = CircularReferenceError
           ELSE /\ Len(stack[t]') = Len(stack[t]) + 1
                /\ Top(t)'.c = value
                /\ ret[t]' = ret[t]
      ]_vars

\* the diamond is rendered from A by both goroutines at once: one has
\* returned its markup, having rendered D under B and under C, while the
\* other is inside its own render of D
C11_Witness ==
  /\ Children("A") = {"B", "C"}
  /\ Children("B") = {"D"}
  /\ Children("C") = {"D"}
  /\ Children("D") = {}
  /\ Root(1) = "A"
  /\ Root(2) = "A"
  /\ Returned(1)
  /\ ret[1].err = NoError
  /\ stack[2] # <<>>
  /\ Top(2).c = "D"
  /\ Len(stack[2]) = 3


\* C19, as stated: in no interleaving of two Render calls are two goroutines
\* about to access the same component's local data, global data or
\* partial-results map, one of them writing, without synchronisation.
C19_AsStated == \A t \in Threads, u \in Threads : ~Race(t, u)


\* C12, as stated: when the template of a descendant D is about to be
\* executed, for each key k an ancestor holds in its global data and that
\* neither D nor a component between them has set itself, D's global data
\* holds the ancestor's value for k.
C12_AsStated ==
  \A i \in 2..Len(stack[1]) :
    stack[1][i].pc = "exec" =>
      \A j \in 1..(i - 1), k \in Keys :
        (/\ Has(globalData[stack[1][j].c], k)
         /\ \A m \in (j + 1)..i : k \notin ownGlobal[stack[1][m].c]) =>
          globalData[stack[1][i].c][k] = globalData[stack[1][j].c][k]


\* C13, as stated: the template a component's Render is about to execute
\* was compiled with, for every name registered on the component, the
\* implementation most recently registered on that component under it.
C13_AsStated ==
  \A i \in 1..Len(stack[1]) :
    LET frame == stack[1][i] IN
    (frame.pc = "exec" /\ IsTemplate(frame.tmpl[1])) =>
      \A name \in NamesOf(functions[frame.c]) :
        frame.tmpl[1].funcs[name] = functions[frame.c][name]

\* C14, as stated: the template a component's Render is about to execute
\* was compiled from the component's own template identifiers: renders whose
\* identifier sequences differ share no cache entry.
C14_AsStated ==
  \A i \in 1..Len(stack[1]) :
    LET frame == stack[1][i] IN
    (frame.pc = "exec" /\ IsTemplate(frame.tmpl[1])) =>
      frame.tmpl[1].templates = templates[frame.c]


\* C15, as stated: for a fixed component graph and fixed data, whatever
\* order the children of each component are visited in, Render returns the
\* same markup or error and leaves every component with the same data.
C15_AsStated ==
  \A c \in Trio : \A ord1 \in Orders, ord2 \in Orders :
    RenderAll(c, {}, Maps3, ord1) = RenderAll(c, {}, Maps3, ord2)


\* C16: a With(child, slot) that returns has registered the child under the
\* slot, replacing the child the slot held and leaving the other slots as
\* they were; when the component's source URL was set at the call, the child
\* and every component reachable from the child hold that URL, and otherwise
\* no URL has changed.
C16_WithRegisters ==
  (last.op = "With" /\ fatal = "") =>
    /\ with[last.c] = [s \in DOMAIN last.slots \cup {last.target} |->
                         IF s = last.target THEN last.r ELSE last.slots[s]]
    /\ IF last.before[last.c] = NilURL
       THEN url = last.before
       ELSE \A x \in Comp :
              url[x] = IF x \in last.below THEN last.before[last.c]
                       ELSE last.before[x]

\* a child that has a child of its own was registered on a component whose
\* URL was set: the grandchild received the URL during With
C16_Witness ==
  /\ last.op = "With"
  /\ fatal = ""
  /\ last.before[last.c] = "/about"
  /\ \E x \in last.below :
       /\ x # last.r
       /\ x # last.c
       /\ last.before[x] = NilURL
       /\ url[x] = "/about"


\* C17, as stated: a nil local-data or global-data map is tolerated by every
\* write: no Render ends in the panic of a write to a nil map, and after
\* AddData or AddGlobalData the map exists and holds the key.
C17_AsStated ==
  /\ \A t \in Threads : call[t].status # "panic"
  /\ last.op = "AddData" => ~IsNil(templateData[last.c])
  /\ last.op = "AddGlobalData" => ~IsNil(globalData[last.c])

\* C18, as stated: SetURL, and With on a component whose source URL is set,
\* return on every component graph, cyclic or not: the process never dies of
\* the unbounded recursion of the propagation.
C18_AsStated == fatal # "stack overflow"

====
